---- MODULE Spec2Model ----
(***************************************************************************)
(* THOR_API dashboard, /api/data route (src/unnamed/part_009, second       *)
(* revision, lines 806-1629): the handler reads seizures.csv and pain.csv, *)
(* normalizes the seizure rows and answers with analyzePNESIndicators and  *)
(* calculateMedicalInsights applied to them.                               *)
(*                                                                         *)
(* Representation.  A calendar day is the number of days from 2024-12-31, *)
(* so "2025-01-dd" is dd and "2026-01-01" is 366.  A CSV cell that is      *)
(* empty or not a number is Empty.  A Time cell "HH:MM:00" is the minute   *)
(* of the day 60 * HH + MM.  JavaScript numbers are modelled as exact      *)
(* rationals: a percentage (k / n) * 100 is compared by                    *)
(* cross-multiplication and a value rounded to one decimal is kept as an   *)
(* integer number of tenths; NaN is a value of its own.  For the inputs    *)
(* drawn here the double-precision results agree with the exact ones, and  *)
(* the server's time zone has no clock change between the modelled days.   *)
(***************************************************************************)
EXTENDS Integers, Sequences, FiniteSets, TLC

VARIABLES
    seizureFile,       \* seizures.csv on disk: "absent", "present" or "unreadable"
    seizures,          \* rows of seizures.csv as parseCSV returns them
    painRecords,       \* rows of pain.csv as parseCSV returns them
    status,            \* "none" before the handler answered, then "200" or "500"
    records,           \* responseData.records (the normalized seizureRecords)
    pnes_analysis,     \* responseData.pnes_analysis
    medical_insights,  \* responseData.medical_insights
    medical_charts,    \* responseData.medical_charts
    isLoading,         \* Dashboard: useState(true)
    error,             \* Dashboard: useState<string | null>(null)
    data,              \* Dashboard: useState<DashboardData | null>(null)
    lastRefresh,       \* Dashboard: useState(new Date())
    refreshTimer,      \* Dashboard: the interval timer set by the effect
    inFlight           \* Dashboard: the fetchData calls awaiting their response

server == <<seizureFile, seizures, painRecords, status, records, pnes_analysis,
            medical_insights, medical_charts>>

page == <<isLoading, error, data, lastRefresh, refreshTimer, inFlight>>

vars == <<seizureFile, seizures, painRecords, status, records, pnes_analysis,
          medical_insights, medical_charts,
          isLoading, error, data, lastRefresh, refreshTimer, inFlight>>

-----------------------------------------------------------------------------
(* Bounds of the model *)

MaxSeizures == 3        \* rows of seizures.csv under Spec
MaxPain == 2            \* rows of pain.csv under Spec
MaxDurationRows == 4    \* rows of seizures.csv under SpecDurations
MaxFlagRows == 5        \* rows of seizures.csv under SpecFlags
MaxDayRows == 2         \* rows of seizures.csv under SpecPain
MaxPainRows == 3        \* rows of pain.csv under SpecPain
MaxIntervalRows == 3    \* rows of seizures.csv under SpecIntervals
MaxSplitRows == 3       \* rows of seizures.csv under SpecSplit
MaxLevelRows == 3       \* rows of pain.csv under SpecLevels
MaxRawRows == 2         \* rows of seizures.csv under SpecRaw
MaxRawPain == 1         \* rows of pain.csv under SpecRaw
MaxFileRows == 3        \* rows of seizures.csv under SpecFiles
MaxOrderRows == 5       \* rows of seizures.csv under SpecOrder
MaxOrderPain == 2       \* rows of pain.csv under SpecOrder
MaxTrendRows == 3       \* rows of seizures.csv under SpecTrend
MaxExampleRows == 20    \* rows of seizures.csv under SpecExample
MaxMealRows == 10       \* rows of seizures.csv under SpecMeals
MaxTrailRows == 22      \* rows of seizures.csv under SpecTrail
MaxInFlight == 3        \* fetchData calls awaiting a response under SpecDashboard

-----------------------------------------------------------------------------
(* CSV cells *)

\* parseCSV: obj[header] = values[idx] || ''
Empty == -1

\* handler: const date = s.Date || '2025-01-01'
DefaultDate == 1

SeqsUpTo(n, S) == UNION {[1..k -> S] : k \in 0..n}

Range(f) == {f[i] : i \in DOMAIN f}

RECURSIVE SumSeq(_)
SumSeq(q) == IF q = <<>> THEN 0 ELSE Head(q) + SumSeq(Tail(q))

\* (k / n) * 100 > t, and NaN > t is false when n = 0
PercentGT(k, n, t) == n > 0 /\ k * 100 > t * n

\* (k / n) * 100 < t, and NaN < t is false when n = 0
PercentLT(k, n, t) == n > 0 /\ k * 100 < t * n

\* Math.round((num / den) * 10), the value in tenths (num >= 0, den > 0);
\* Math.round rounds a half up
RoundTenths(num, den) == (20 * num + den) \div (2 * den)

-----------------------------------------------------------------------------
(* handler: the seizureRecords normalizer *)

\* parseInt(cell) || 0
ParseIntOr0(cell) == IF cell = Empty THEN 0 ELSE cell

NormalizeSeizure(s) ==
    LET date == IF s.Date = Empty THEN DefaultDate ELSE s.Date
        time == IF s.Time = Empty THEN 0 ELSE s.Time
    IN  [ timestamp        |-> [date |-> date, time |-> time],
          duration_seconds |-> ParseIntOr0(s.Duration),
          \* parseInt(time.split(':')[0]) || 0
          hour_of_day      |-> time \div 60,
          period           |-> (s.Peiod = "True"),
          food_eaten       |-> (s.Eaten = "True") ]

NormalizeSeizures(rows) == [i \in DOMAIN rows |-> NormalizeSeizure(rows[i])]

\* s.timestamp?.split('T')[0]
TimestampDate(s) == s.timestamp.date

-----------------------------------------------------------------------------
(* analyzePNESIndicators *)

PainWeight == 20
DaytimeWeight == 15
VariabilityWeight == 12
FoodWeight == 10
HormonalWeight == 8

NoStep == [factors |-> <<>>, points |-> 0]

\* the factor is pushed and the score is left as it was
TriggeredUnscored(name, relevance, weight) ==
    [factors |-> << [indicator |-> name, pnes_relevance |-> relevance] >>,
     points  |-> 0]

\* pnesScore is kept between the calls and not reset
TriggeredOnKeptScore(name, relevance, weight) ==
    [factors |-> << [indicator |-> name, pnes_relevance |-> relevance] >>,
     points  |-> weight + pnes_analysis.pnes_likelihood_score]

Triggered(name, relevance, weight) ==
    [factors |-> << [indicator |-> name, pnes_relevance |-> relevance] >>,
     points  |-> weight]

\* the share is taken of the distinct seizure days
PainStepPerSeizureDay(seizureRecords, pain) ==
    IF Len(pain) > 0
    THEN LET seizureDates == {TimestampDate(s) : s \in Range(seizureRecords)}
             painDates == {p.Date : p \in Range(pain)} \ {Empty}
             commonDates == Cardinality(seizureDates \cap painDates)
         IN  IF PercentGT(commonDates, Cardinality(seizureDates), 50)
             THEN [factors |-> << [indicator |-> "High Anxiety/Pain Correlation",
                                   pnes_relevance |-> "HIGH - PNES often triggered by psychological stress"] >>,
                   points |-> 20]
             ELSE [factors |-> <<>>, points |-> 0]
    ELSE [factors |-> <<>>, points |-> 0]

\* 1. Pain/Anxiety Correlation
PainStep(seizureRecords, pain) ==
    IF Len(pain) > 0
    THEN LET seizureDates == {TimestampDate(s) : s \in Range(seizureRecords)}
             painDates == {p.Date : p \in Range(pain)} \ {Empty}
             commonDates == Cardinality(seizureDates \cap painDates)
         IN  IF PercentGT(commonDates, Len(seizureRecords), 50)
             THEN Triggered("High Anxiety/Pain Correlation",
                            "HIGH - PNES often triggered by psychological stress",
                            PainWeight)
             ELSE NoStep
    ELSE NoStep

\* const hour = s.hour_of_day || 12; return hour >= 7 && hour <= 23
IsDaytime(s) ==
    LET hour == IF s.hour_of_day = 0 THEN 12 ELSE s.hour_of_day
    IN  hour >= 7 /\ hour <= 23

\* 2. Daytime Predominance
DaytimeStep(seizureRecords) ==
    LET daytimeSeizures == Len(SelectSeq(seizureRecords, IsDaytime))
    IN  IF PercentGT(daytimeSeizures, Len(seizureRecords), 70)
        THEN Triggered("Predominantly Daytime Seizures",
                       "HIGH - PNES more common when conscious, epileptic often sleep-related",
                       DaytimeWeight)
        ELSE NoStep

\* .map(s => { const dur = s.duration_seconds || 0; return dur > 0 ? dur : null })
\* .filter(d => d !== null)
HasDuration(s) == s.duration_seconds > 0

PositiveDurations(seizureRecords) ==
    LET kept == SelectSeq(seizureRecords, HasDuration)
    IN  [i \in DOMAIN kept |-> kept[i].duration_seconds]

\* ---------------------------------------------------------------------------
\* The JavaScript number type: IEEE 754 binary64, each operation rounded to the
\* nearest 53-bit significand, ties to even.
\* A significand is a natural number held as a little-endian sequence of limbs
\* below LimbBase (no leading zero limb, zero is <<>>), since a 53-bit
\* significand and its 106-bit products exceed the integer range.
LimbBits == 15
LimbBase == 32768
SignificandBits == 53

Pow2(k) == 2^k

\* the number of bits of x < LimbBase
BitLength(x) == Cardinality({k \in 0..(LimbBits - 1) : Pow2(k) <= x})

\* a without its leading zero limbs
Trim(a) ==
    SubSeq(a, 1, CHOOSE n \in 0..Len(a) : (n = 0 \/ a[n] # 0) /\ \A i \in (n + 1)..Len(a) : a[i] = 0)

RECURSIVE Limbs(_)
Limbs(x) == IF x = 0 THEN <<>> ELSE <<x % LimbBase>> \o Limbs(x \div LimbBase)

\* a + b + carry
RECURSIVE AddCarry(_, _, _)
AddCarry(a, b, carry) ==
    IF a = <<>> /\ b = <<>> THEN Limbs(carry)
    ELSE IF a = <<>> THEN AddCarry(b, a, carry)
    ELSE LET x == Head(a) + (IF b = <<>> THEN 0 ELSE Head(b)) + carry
         IN  <<x % LimbBase>>
             \o AddCarry(Tail(a), IF b = <<>> THEN b ELSE Tail(b), x \div LimbBase)

\* a - b - borrow for a >= b + borrow, leading zero limbs not yet removed
RECURSIVE SubBorrow(_, _, _)
SubBorrow(a, b, borrow) ==
    IF a = <<>> THEN <<>>
    ELSE LET x == Head(a) - (IF b = <<>> THEN 0 ELSE Head(b)) - borrow
         IN  <<x % LimbBase>>
             \o SubBorrow(Tail(a), IF b = <<>> THEN b ELSE Tail(b), IF x < 0 THEN 1 ELSE 0)

\* -1, 0, 1 as a is below, equal to, above b (neither with a leading zero limb):
\* the longer one is above, and of two of one length the highest position where
\* they differ decides
BigCompare(a, b) ==
    LET differ == {i \in 1..Len(a) : i > Len(b) \/ a[i] # b[i]}
        top    == CHOOSE i \in differ : \A j \in differ : j <= i
    IN  IF Len(a) < Len(b) THEN -1
        ELSE IF Len(a) > Len(b) THEN 1
        ELSE IF differ = {} THEN 0
        ELSE IF a[top] < b[top] THEN -1 ELSE 1

\* a * k + carry for a limb k, leading zero limbs not yet removed
RECURSIVE MulLimb(_, _, _)
MulLimb(a, k, carry) ==
    IF a = <<>> THEN Limbs(carry)
    ELSE LET x == Head(a) * k + carry
         IN  <<x % LimbBase>> \o MulLimb(Tail(a), k, x \div LimbBase)

\* a * b: a times the lowest limb of b, plus a times the limbs above it (hi)
\* moved up by one limb
RECURSIVE BigMul(_, _)
BigMul(a, b) ==
    IF a = <<>> \/ b = <<>> THEN <<>>
    ELSE LET Sum(hi) == IF hi = <<>> THEN Trim(MulLimb(a, Head(b), 0))
                        ELSE AddCarry(MulLimb(a, Head(b), 0), <<0>> \o hi, 0)
         IN  Sum(BigMul(a, Tail(b)))

\* the quotient of a by d, a power of two below LimbBase: each position keeps
\* its own quotient and receives the remainder of the position above
DivLimb(a, d) ==
    Trim([i \in 1..Len(a) |-> a[i] \div d + (IF i < Len(a) THEN (a[i + 1] % d) * (LimbBase \div d) ELSE 0)])

BigBitLength(a) ==
    IF a = <<>> THEN 0 ELSE LimbBits * (Len(a) - 1) + BitLength(a[Len(a)])

ShiftLeft(a, k) ==
    IF a = <<>> THEN <<>>
    ELSE [i \in 1..(k \div LimbBits) |-> 0] \o MulLimb(a, Pow2(k % LimbBits), 0)

ShiftRight(a, k) ==
    IF k \div LimbBits >= Len(a) THEN <<>>
    ELSE DivLimb(SubSeq(a, k \div LimbBits + 1, Len(a)), Pow2(k % LimbBits))

\* y, with x evaluated first: the steps of a computation are then evaluated one
\* after the other instead of each inside the step that uses it
After(x, y) == <<x, y>>[2]

\* the largest digit d with b * d <= rem, looked for downwards from an estimate
\* that is not below it
RECURSIVE QuotientDigit(_, _, _)
QuotientDigit(rem, b, d) ==
    IF BigCompare(Trim(MulLimb(b, d, 0)), rem) <= 0 THEN d ELSE QuotientDigit(rem, b, d - 1)

\* quotient and remainder of a by b # 0 (neither with a leading zero limb), one
\* limb of a at a time from the top; a shorter than b is the remainder itself.
\* hi is the result for the limbs above the lowest, rem its remainder with the
\* lowest limb brought down, d the next digit.  The estimate of d is the top
\* two limbs of rem over the top limb of b: it is never below the digit, and at
\* most two above it when the top limb of b is at least LimbBase / 2
RECURSIVE LongDivision(_, _)
LongDivision(a, b) ==
    IF Len(a) < Len(b) THEN [q |-> <<>>, r |-> a]
    ELSE LET n == Len(b)
             Result(hi, rem, d) ==
                 After(d, [q |-> Trim(<<d>> \o hi.q), r |-> Trim(SubBorrow(rem, MulLimb(b, d, 0), 0))])
             Estimate(top) == IF top \div b[n] < LimbBase THEN top \div b[n] ELSE LimbBase - 1
             Digit(hi, rem) ==
                 After(rem, Result(hi, rem, QuotientDigit(rem, b, Estimate(
                     IF Len(rem) > n THEN rem[n + 1] * LimbBase + rem[n]
                     ELSE IF Len(rem) = n THEN rem[n] ELSE 0))))
             Step(hi) == After(hi, Digit(hi, Trim(<<Head(a)>> \o hi.r)))
         IN  Step(LongDivision(Tail(a), b))

\* the largest digit d with (root * LimbBase + d)^2 <= a, looked for downwards
\* from an estimate that is not below it
RECURSIVE RootDigit(_, _, _)
RootDigit(a, root, d) ==
    LET Fits(candidate) == BigCompare(BigMul(candidate, candidate), a) <= 0
    IN  IF Fits(Trim(<<d>> \o root)) THEN d ELSE RootDigit(a, root, d - 1)

\* floor of the square root of x < LimbBase^2, five bits of the root at a time
IntegerSqrt(x) ==
    LET Step(d, bit) == d + Pow2(bit) * Cardinality({k \in 1..31 : (d + k * Pow2(bit)) * (d + k * Pow2(bit)) <= x})
    IN  Step(Step(Step(0, 10), 5), 0)

\* floor of the square root of a, one limb of the root at a time from the top:
\* the root of the limbs of a above the lowest two, then one more digit d.  With
\* rest = a - (root * LimbBase)^2, d is at most rest / (2 * root * LimbBase)
RECURSIVE BigSqrt(_)
BigSqrt(a) ==
    IF Len(a) <= 2
    THEN Limbs(IntegerSqrt(IF a = <<>> THEN 0 ELSE IF Len(a) = 1 THEN a[1] ELSE a[2] * LimbBase + a[1]))
    ELSE LET Rest(shifted) == Trim(SubBorrow(a, BigMul(shifted, shifted), 0))
             Half(rest, root) == After(rest, DivLimb(LongDivision(SubSeq(rest, 2, Len(rest)), root).q, 2))
             Estimate(half) == IF half = <<>> THEN 0 ELSE IF Len(half) > 1 THEN LimbBase - 1 ELSE half[1]
             Digit(root, d) == After(d, Trim(<<RootDigit(a, root, d)>> \o root))
             Step(root) == After(root, Digit(root, Estimate(Half(Rest(<<0>> \o root), root))))
         IN  Step(BigSqrt(SubSeq(a, 3, Len(a))))

\* A number is sign * m * 2^e.  RoundNearestEven keeps 53 bits of m; inexact
\* says that the true value lies strictly above m * 2^e (below (m + 1) * 2^e).
\* With k bits to drop, q is m without them and c compares the dropped bits
\* with half a unit of q
RoundNearestEven(sign, m, e, inexact) ==
    LET k == BigBitLength(m) - SignificandBits
        Up(q, c) == c > 0 \/ (c = 0 /\ (inexact \/ Head(q) % 2 = 1))
        Dropped(q) == Trim(SubBorrow(m, ShiftLeft(q, k), 0))
        Rounded(q) ==
            After(q, [sign |-> sign,
             m    |-> IF Up(q, BigCompare(Dropped(q), ShiftLeft(<<1>>, k - 1))) THEN AddCarry(q, <<>>, 1) ELSE q,
             e    |-> e + k])
    IN  IF k <= 0 THEN [sign |-> sign, m |-> m, e |-> e] ELSE Rounded(ShiftRight(m, k))

Number(x) == [sign |-> IF x < 0 THEN -1 ELSE 1, m |-> Limbs(IF x < 0 THEN -x ELSE x), e |-> 0]

\* x + y for numbers of either sign: mx and my are the significands brought to
\* the smaller exponent e
Plus(x, y) ==
    LET e == IF x.e < y.e THEN x.e ELSE y.e
        Sum(mx, my) ==
            IF x.sign = y.sign THEN RoundNearestEven(x.sign, AddCarry(mx, my, 0), e, FALSE)
            ELSE IF BigCompare(mx, my) >= 0 THEN RoundNearestEven(x.sign, Trim(SubBorrow(mx, my, 0)), e, FALSE)
            ELSE RoundNearestEven(y.sign, Trim(SubBorrow(my, mx, 0)), e, FALSE)
    IN  After(x, After(y, Sum(ShiftLeft(x.m, x.e - e), ShiftLeft(y.m, y.e - e))))

Times(x, y) == After(x, After(y, RoundNearestEven(x.sign * y.sign, BigMul(x.m, y.m), x.e + y.e, FALSE)))

\* x / y for y # 0: the quotient is taken to at least 56 bits before rounding;
\* both sides are scaled so that the top limb of the divisor is full
Divide(x, y) ==
    LET gap == SignificandBits + 3 + BigBitLength(y.m) - BigBitLength(x.m)
        k   == IF gap > 0 THEN gap ELSE 0
        s   == LimbBits - BitLength(y.m[Len(y.m)])
        Quotient(qr) == After(qr, RoundNearestEven(x.sign * y.sign, qr.q, x.e - y.e - k, qr.r # <<>>))
    IN  After(x, After(y, Quotient(LongDivision(ShiftLeft(x.m, k + s), ShiftLeft(y.m, s)))))

\* Math.sqrt(x) for x >= 0: the root is taken to at least 55 bits before
\* rounding, from eight limbs of which the top two hold at least 29 bits
Sqrt(x) ==
    LET gap  == 8 * LimbBits - 1 - BigBitLength(x.m)
        need == IF gap > 0 THEN gap ELSE 0
        k    == IF (x.e - need) % 2 = 0 THEN need ELSE need + 1
        Rounded(a, root) == After(root, RoundNearestEven(1, root, (x.e - k) \div 2, BigMul(root, root) # a))
        Root(a) == Rounded(a, BigSqrt(a))
    IN  After(x, Root(ShiftLeft(x.m, k)))

\* x > y for x, y >= 0
Greater(x, y) ==
    LET e == IF x.e < y.e THEN x.e ELSE y.e
    IN  BigCompare(ShiftLeft(x.m, x.e - e), ShiftLeft(y.m, y.e - e)) > 0

\* durations.reduce((a, b) => a + Math.pow(b - mean, 2), 0): the sum a of the
\* elements before the last, then a + Math.pow(b - mean, 2) for the last one b;
\* the square of a double is the correctly rounded product
RECURSIVE SquaredDeviations(_, _)
SquaredDeviations(durations, mean) ==
    IF durations = <<>> THEN Number(0)
    ELSE LET n == Len(durations)
             Square(deviation) == Times(deviation, deviation)
         IN  Plus(SquaredDeviations(SubSeq(durations, 1, n - 1), mean),
                  Square(Plus(Number(durations[n]), [mean EXCEPT !.sign = -mean.sign])))

\* mean = sum / length, variance = squared deviations / length,
\* stdDev = Math.sqrt(variance), cv = mean > 0 ? (stdDev / mean) * 100 : 0,
\* each value computed before the next one is started
CoefficientOfVariation(durations) ==
    LET n == Number(Len(durations))
        FromStdDev(mean, stdDev) == After(stdDev, Times(Divide(stdDev, mean), Number(100)))
        FromVariance(mean, variance) == After(variance, FromStdDev(mean, Sqrt(variance)))
        FromSum(mean, sum) == After(sum, FromVariance(mean, Divide(sum, n)))
        FromMean(mean) ==
            After(mean, IF Greater(mean, Number(0)) THEN FromSum(mean, SquaredDeviations(durations, mean))
                        ELSE Number(0))
    IN  FromMean(Divide(Number(SumSeq(durations)), n))

\* cv >= 50
CvAtLeast50(durations) ==
    LET n == Len(durations)
        S == SumSeq(durations)
        dev == SumSeq([i \in DOMAIN durations |-> (n * durations[i] - S) * (n * durations[i] - S)])
    IN  S > 0 /\ 4 * dev >= n * S * S

\* cv > 50 for mean = S / n, variance = sum((b - mean)^2) / n, stdDev = sqrt(variance),
\* cv = mean > 0 ? (stdDev / mean) * 100 : 0.  With dev = sum((n*b - S)^2) the
\* variance is dev / n^3 and mean^2 is S^2 / n^2, so the exact stdDev / mean is
\* above 1/2 exactly when 4 * dev > n * S^2.  The doubles lie within a few units
\* in the last place of the exact values, so for durations of a few digits the
\* test is decided by the exact values unless they give cv = 50; then the
\* rounding decides and the computation is followed in double arithmetic.
CvAbove50(durations) ==
    LET n == Len(durations)
        S == SumSeq(durations)
        dev == SumSeq([i \in DOMAIN durations |-> (n * durations[i] - S) * (n * durations[i] - S)])
    IN  IF S > 0 /\ 4 * dev = n * S * S
        THEN Greater(CoefficientOfVariation(durations), Number(50))
        ELSE S > 0 /\ 4 * dev > n * S * S

\* 3. Duration Variability
VariabilityStep(seizureRecords) ==
    LET durations == PositiveDurations(seizureRecords)
    IN  IF Len(durations) > 2 /\ CvAbove50(durations)
        THEN Triggered("High Duration Variability",
                       "MODERATE - PNES duration inconsistent, epilepsy more consistent",
                       VariabilityWeight)
        ELSE NoStep

AteFood(s) == s.food_eaten = TRUE
AteNoFood(s) == s.food_eaten = FALSE

\* 4. Food Trigger Correlation
FoodStep(seizureRecords) ==
    LET seizuresWithFood == Len(SelectSeq(seizureRecords, AteFood))
        seizuresWithoutFood == Len(SelectSeq(seizureRecords, AteNoFood))
    IN  IF seizuresWithFood > 0 /\ seizuresWithoutFood > 0
           /\ ( PercentGT(seizuresWithFood, Len(seizureRecords), 60)
                \/ PercentLT(seizuresWithFood, Len(seizureRecords), 40) )
        THEN Triggered("Potential Environmental Trigger Pattern",
                       "MODERATE - PNES often linked to specific environmental/emotional triggers",
                       FoodWeight)
        ELSE NoStep

DuringPeriod(s) == s.period = TRUE

\* periodPercent <= 20
HormonalStepInclusive(seizureRecords) ==
    LET periodRelatedSeizures == Len(SelectSeq(seizureRecords, DuringPeriod))
    IN  IF Len(seizureRecords) > 0 /\ periodRelatedSeizures * 100 <= 20 * Len(seizureRecords)
        THEN [factors |-> << [indicator |-> "Low Hormonal Correlation",
                              pnes_relevance |-> "MODERATE - PNES psychological, not hormonal; epilepsy often hormone-influenced"] >>,
              points |-> 8]
        ELSE [factors |-> <<>>, points |-> 0]

\* 5. Menstrual Cycle Correlation
HormonalStep(seizureRecords) ==
    LET periodRelatedSeizures == Len(SelectSeq(seizureRecords, DuringPeriod))
    IN  IF PercentLT(periodRelatedSeizures, Len(seizureRecords), 20)
        THEN Triggered("Low Hormonal Correlation",
                       "MODERATE - PNES psychological, not hormonal; epilepsy often hormone-influenced",
                       HormonalWeight)
        ELSE NoStep

\* pnesScore > 50
ClassifyStrict(pnesScore) ==
    IF pnesScore > 50 THEN "HIGH"
    ELSE IF pnesScore >= 30 THEN "MODERATE"
    ELSE IF pnesScore >= 15 THEN "LOW"
    ELSE "MINIMAL"

\* Determine classification
Classify(pnesScore) ==
    IF pnesScore >= 50 THEN "HIGH"
    ELSE IF pnesScore >= 30 THEN "MODERATE"
    ELSE IF pnesScore >= 15 THEN "LOW"
    ELSE "MINIMAL"

HighTemplate ==
    << "Consider psychological evaluation by neuropsychiatrist",
       "EEG monitoring recommended to rule out subclinical seizures",
       "Stress/anxiety assessment and management program suggested",
       "Keep detailed trigger logs (emotional events, stressors)" >>

ModerateTemplate ==
    << "Psychological screening recommended",
       "Continue seizure tracking with emotional/stress context",
       "Consider video-EEG monitoring if diagnosis uncertain" >>

StandardTemplate ==
    << "Continue standard epilepsy management",
       "Monitor for changes in seizure pattern",
       "Maintain detailed seizure logs" >>

InsufficientData == << "Insufficient data for analysis" >>

\* the MODERATE branch also taken for LOW
RecommendLowAsModerate(classification) ==
    IF classification = "HIGH" THEN HighTemplate
    ELSE IF classification \in {"MODERATE", "LOW"} THEN ModerateTemplate
    ELSE StandardTemplate

\* if (classification === 'HIGH') ... else if (classification === 'MODERATE') ... else ...
Recommend(classification) ==
    IF classification = "HIGH" THEN HighTemplate
    ELSE IF classification = "MODERATE" THEN ModerateTemplate
    ELSE StandardTemplate

\* no early return
NoEarlyExit(seizureRecords) == FALSE

\* if (seizureRecords.length === 0) return { ... }
EarlyExit(seizureRecords) == Len(seizureRecords) = 0

analyzePNESIndicators(seizureRecords, pain) ==
    IF EarlyExit(seizureRecords)
    THEN [ pnes_likelihood_score |-> 0,
           classification        |-> "MINIMAL",
           risk_factors          |-> <<>>,
           recommendations       |-> InsufficientData ]
    ELSE LET s1 == PainStep(seizureRecords, pain)
             s2 == DaytimeStep(seizureRecords)
             s3 == VariabilityStep(seizureRecords)
             s4 == FoodStep(seizureRecords)
             s5 == HormonalStep(seizureRecords)
             pnesScore == s1.points + s2.points + s3.points + s4.points + s5.points
             classification == Classify(pnesScore)
         IN  [ pnes_likelihood_score |-> pnesScore,
               classification        |-> classification,
               risk_factors          |-> s1.factors \o s2.factors \o s3.factors
                                         \o s4.factors \o s5.factors,
               recommendations       |-> Recommend(classification) ]

-----------------------------------------------------------------------------
(* calculateMedicalInsights: Pain Correlation *)

\* parseFloat(p.Pain) || 0
PainValue(p) == IF p.Pain = Empty THEN 0 ELSE p.Pain

\* q.reduce((sum, p) => sum + (parseFloat(p.Pain) || 0), 0) / q.length, then
\* Math.round(avg * 10) / 10; stays 0 when q is empty
AvgPainTenths(q) ==
    IF Len(q) > 0
    THEN RoundTenths(SumSeq([i \in DOMAIN q |-> PainValue(q[i])]), Len(q))
    ELSE 0

\* new Set(seizureRecords.map(s => s.timestamp?.split('T')[0]).filter(Boolean))
SeizureDates(seizureRecords) == {TimestampDate(s) : s \in Range(seizureRecords)}

\* painRecords.filter(p => seizureDates.has(p.Date || p.date))
PainOnSeizure(seizureRecords, pain) ==
    LET OnSeizureDay(p) == p.Date \in SeizureDates(seizureRecords)
    IN  SelectSeq(pain, OnSeizureDay)

\* painRecords.filter(p => !seizureDates.has(p.Date || p.date))
PainOnNonSeizure(seizureRecords, pain) ==
    LET NotOnSeizureDay(p) == ~(p.Date \in SeizureDates(seizureRecords))
    IN  SelectSeq(pain, NotOnSeizureDay)

\* the percentage is taken of the seizure records
PainCorrelationPerSeizure(seizureRecords, pain) ==
    LET painOnSeizure == PainOnSeizure(seizureRecords, pain)
        painOnNonSeizure == PainOnNonSeizure(seizureRecords, pain)
        divisor == IF Len(seizureRecords) = 0 THEN 1 ELSE Len(seizureRecords)
    IN  [ avg_pain_seizure_days     |-> AvgPainTenths(painOnSeizure),
          avg_pain_non_seizure_days |-> AvgPainTenths(painOnNonSeizure),
          days_with_pain            |-> Len(painOnSeizure),
          correlation_percentage    |-> RoundTenths(Len(painOnSeizure) * 100, divisor) ]

PainCorrelation(seizureRecords, pain) ==
    LET painOnSeizure == PainOnSeizure(seizureRecords, pain)
        painOnNonSeizure == PainOnNonSeizure(seizureRecords, pain)
        painOnSeizureDays == Len(painOnSeizure)
        \* painRecords?.length || 1
        divisor == IF Len(pain) = 0 THEN 1 ELSE Len(pain)
    IN  [ avg_pain_seizure_days     |-> AvgPainTenths(painOnSeizure),
          avg_pain_non_seizure_days |-> AvgPainTenths(painOnNonSeizure),
          days_with_pain            |-> painOnSeizureDays,
          correlation_percentage    |-> RoundTenths(painOnSeizureDays * 100, divisor) ]

-----------------------------------------------------------------------------
(* calculateMedicalInsights: Food Impact Analysis and Menstrual Cycle       *)
(* Analysis                                                                 *)

\* 0 / 0, which JSON.stringify writes as null
NaN == -1000000

\* seizureRecords.filter(s => s.food_eaten === true)
WithFood(s) == s.food_eaten = TRUE

\* seizureRecords.filter(s => s.food_eaten === false)
WithoutFood(s) == s.food_eaten = FALSE

\* seizureRecords.filter(s => s.period === true)
PeriodSeizures(s) == s.period = TRUE

\* seizureRecords.filter(s => s.period === false)
NonPeriodSeizures(s) == s.period = FALSE

\* q.reduce((sum, s) => sum + (s.duration_seconds || 0), 0)
DurationSum(q) == SumSeq([i \in DOMAIN q |-> q[i].duration_seconds])

\* q.length > 0 ? q.reduce(...) / q.length : 0, as the fraction num / den
AvgDuration(q) ==
    [num |-> DurationSum(q), den |-> IF Len(q) > 0 THEN Len(q) ELSE 1]

\* b - a
FracDiffReversed(a, b) == [num |-> b.num * a.den - a.num * b.den, den |-> a.den * b.den]

\* a - b for two fractions, as a fraction
FracDiff(a, b) == [num |-> a.num * b.den - b.num * a.den, den |-> a.den * b.den]

\* Math.round(x * 10) / 10 for the fraction x, in tenths
FracTenths(x) == (20 * x.num + x.den) \div (2 * x.den)

\* Math.round(x) for the fraction x
FracRound(x) == (2 * x.num + x.den) \div (2 * x.den)

\* foodDifference > 0 ? 'longer' : foodDifference < 0 ? 'shorter' : 'similar'
FoodTrend(foodDifference) ==
    IF foodDifference.num > 0 THEN "longer"
    ELSE IF foodDifference.num < 0 THEN "shorter" ELSE "similar"

FoodImpact(seizureRecords) ==
    LET withFood == SelectSeq(seizureRecords, WithFood)
        withoutFood == SelectSeq(seizureRecords, WithoutFood)
        withFoodAvg == AvgDuration(withFood)
        withoutFoodAvg == AvgDuration(withoutFood)
        foodDifference == FracDiff(withFoodAvg, withoutFoodAvg)
    IN  [ with_food_avg    |-> FracTenths(withFoodAvg),
          without_food_avg |-> FracTenths(withoutFoodAvg),
          difference       |-> FracTenths(foodDifference),
          food_eaters      |-> Len(withFood),
          non_eaters       |-> Len(withoutFood),
          trend            |-> FoodTrend(foodDifference) ]

\* (periodSeizures.length / seizureRecords.length) * 100, then
\* Math.round(periodPercentage * 10) / 10, in tenths
PeriodPercentage(periodCount, total) ==
    IF total = 0 THEN NaN ELSE RoundTenths(periodCount * 100, total)

MenstrualAnalysis(seizureRecords) ==
    LET periodSeizures == SelectSeq(seizureRecords, PeriodSeizures)
        nonPeriodSeizures == SelectSeq(seizureRecords, NonPeriodSeizures)
        periodAvg == AvgDuration(periodSeizures)
        nonPeriodAvg == AvgDuration(nonPeriodSeizures)
        menstrualDifference == FracDiff(periodAvg, nonPeriodAvg)
    IN  [ period_avg_duration     |-> FracTenths(periodAvg),
          non_period_avg_duration |-> FracTenths(nonPeriodAvg),
          difference              |-> FracTenths(menstrualDifference),
          period_seizure_count    |-> Len(periodSeizures),
          period_percentage       |-> PeriodPercentage(Len(periodSeizures),
                                                       Len(seizureRecords)) ]

\* Food Impact Comparison
FoodImpactComparison(seizureRecords) ==
    LET withFood == SelectSeq(seizureRecords, WithFood)
        withoutFood == SelectSeq(seizureRecords, WithoutFood)
    IN  << [ category |-> "With Food",
             avg_duration |-> FracRound(AvgDuration(withFood)),
             count |-> Len(withFood) ],
           [ category |-> "Without Food",
             avg_duration |-> FracRound(AvgDuration(withoutFood)),
             count |-> Len(withoutFood) ] >>

-----------------------------------------------------------------------------
(* calculateMedicalInsights: Inter-seizure Intervals                       *)

MinutesPerHour == 60

\* intervalHours < 8760
YearHours == 8760

\* parseLocalTime: new Date(year, month - 1, day, hours, minutes, seconds).getTime(),
\* counted in minutes
parseLocalTime(timestamp) == 24 * MinutesPerHour * timestamp.date + timestamp.time

\* a.timestamp.localeCompare(b.timestamp) < 0
TimestampLT(a, b) ==
    \/ a.timestamp.date < b.timestamp.date
    \/ a.timestamp.date = b.timestamp.date /\ a.timestamp.time < b.timestamp.time

\* a.timestamp.localeCompare(b.timestamp) <= 0
TimestampLE(a, b) ==
    \/ a.timestamp.date < b.timestamp.date
    \/ a.timestamp.date = b.timestamp.date /\ a.timestamp.time <= b.timestamp.time

RECURSIVE InsertByTimestamp(_, _)
InsertByTimestamp(sorted, s) ==
    IF sorted = <<>> THEN <<s>>
    ELSE IF TimestampLE(Head(sorted), s)
         THEN <<Head(sorted)>> \o InsertByTimestamp(Tail(sorted), s)
         ELSE <<s>> \o sorted

\* [...seizureRecords].sort((a, b) => a.timestamp.localeCompare(b.timestamp)):
\* the sort is stable
RECURSIVE SortedSeizures(_)
SortedSeizures(seizureRecords) ==
    IF seizureRecords = <<>> THEN <<>>
    ELSE LET n == Len(seizureRecords)
         IN  InsertByTimestamp(SortedSeizures(SubSeq(seizureRecords, 1, n - 1)),
                               seizureRecords[n])

\* Math.round(intervalHours) for an elapsed time of so many minutes
RoundHours(minutes) == (2 * minutes + MinutesPerHour) \div (2 * MinutesPerHour)

\* prevTime > 0 && currTime > 0 && currTime >= prevTime, then
\* intervalHours > 0 && intervalHours < 8760
IntervalKept(prevTime, currTime) ==
    /\ prevTime > 0 /\ currTime > 0 /\ currTime >= prevTime
    /\ currTime - prevTime > 0
    /\ currTime - prevTime < YearHours * MinutesPerHour

\* for (let i = 1; i < sortedSeizures.length; i++) { ... intervals.push(...) }
Intervals(sortedSeizures) ==
    LET Elapsed(i) == << parseLocalTime(sortedSeizures[i].timestamp),
                         parseLocalTime(sortedSeizures[i + 1].timestamp) >>
        Kept(i) == IntervalKept(Elapsed(i)[1], Elapsed(i)[2])
        pairs == SelectSeq([i \in 1..(Len(sortedSeizures) - 1) |-> i], Kept)
    IN  [k \in DOMAIN pairs |-> RoundHours(Elapsed(pairs[k])[2] - Elapsed(pairs[k])[1])]

RECURSIVE InsertNumber(_, _)
InsertNumber(sorted, x) ==
    IF sorted = <<>> THEN <<x>>
    ELSE IF Head(sorted) <= x
         THEN <<Head(sorted)>> \o InsertNumber(Tail(sorted), x)
         ELSE <<x>> \o sorted

\* [...intervals].sort((a, b) => a - b)
RECURSIVE SortedIntervals(_)
SortedIntervals(intervals) ==
    IF intervals = <<>> THEN <<>>
    ELSE InsertNumber(SortedIntervals(Tail(intervals)), Head(intervals))

\* Math.min(...[]) is Infinity: the list is not tested for being empty
MinIntervalUnguarded(intervals) ==
    IF Len(intervals) > 0 THEN SortedIntervals(intervals)[1] ELSE YearHours

\* intervals.length > 0 ? Math.min(...intervals) : 0
MinInterval(intervals) ==
    IF Len(intervals) > 0 THEN SortedIntervals(intervals)[1] ELSE 0

\* intervals.length > 0 ? Math.max(...intervals) : 0
MaxInterval(intervals) ==
    IF Len(intervals) > 0 THEN SortedIntervals(intervals)[Len(intervals)] ELSE 0

\* intervals.length > 0 ? intervals.reduce((a, b) => a + b, 0) / intervals.length : 0,
\* then Math.round(avgInterval * 10) / 10, in tenths
AvgIntervalTenths(intervals) ==
    IF Len(intervals) > 0 THEN RoundTenths(SumSeq(intervals), Len(intervals)) ELSE 0

\* the lower middle element
MedianIntervalLower(intervals) ==
    IF Len(intervals) > 0
    THEN SortedIntervals(intervals)[((Len(intervals) - 1) \div 2) + 1]
    ELSE 0

\* sortedIntervals.length > 0 ? sortedIntervals[Math.floor(sortedIntervals.length / 2)] : 0
MedianInterval(intervals) ==
    IF Len(intervals) > 0
    THEN SortedIntervals(intervals)[(Len(intervals) \div 2) + 1]
    ELSE 0

\* intervals.slice(0, 20)
FirstTwenty(intervals) ==
    SubSeq(intervals, 1, IF Len(intervals) < 20 THEN Len(intervals) ELSE 20)

InterSeizureIntervals(intervals) ==
    [ min_interval    |-> MinInterval(intervals),
      max_interval    |-> MaxInterval(intervals),
      avg_interval    |-> AvgIntervalTenths(intervals),
      median_interval |-> MedianInterval(intervals),
      intervals       |-> FirstTwenty(intervals) ]

\* an interval of exactly 24, 72, 168 or 336 hours opens the next bucket
BucketOfExclusive(interval) ==
    IF interval < 24 THEN "0-24h"
    ELSE IF interval < 72 THEN "1-3d"
    ELSE IF interval < 168 THEN "3-7d"
    ELSE IF interval < 336 THEN "1-2w"
    ELSE "2w+"

\* intervals.forEach: if (interval <= 24) ... else if (interval <= 72) ... else ...
BucketOf(interval) ==
    IF interval <= 24 THEN "0-24h"
    ELSE IF interval <= 72 THEN "1-3d"
    ELSE IF interval <= 168 THEN "3-7d"
    ELSE IF interval <= 336 THEN "1-2w"
    ELSE "2w+"

\* Object.entries(intervalBuckets), in the order the keys were written
BucketRanges == << "0-24h", "1-3d", "3-7d", "1-2w", "2w+" >>

\* Inter-seizure Distribution
InterSeizureDistribution(intervals) ==
    [ b \in DOMAIN BucketRanges |->
        LET InBucket(interval) == BucketOf(interval) = BucketRanges[b]
        IN  [ range |-> BucketRanges[b],
              count |-> Len(SelectSeq(intervals, InBucket)) ] ]

\* Duration Trend Chart Data
DurationTrend(sortedSeizures) ==
    [ idx \in DOMAIN sortedSeizures |->
        [ seizure_number |-> idx,
          duration       |-> sortedSeizures[idx].duration_seconds,
          date           |-> TimestampDate(sortedSeizures[idx]) ] ]

\* .reduce((max, p) => Math.max(max, parseFloat(p.Pain) || 0), 0)
RECURSIVE HighestPain(_)
HighestPain(q) ==
    IF q = <<>> THEN 0
    ELSE LET rest == HighestPain(Tail(q))
         IN  IF PainValue(Head(q)) > rest THEN PainValue(Head(q)) ELSE rest

\* Pain-Seizure Correlation Chart Data: seizureRecords.slice(-10).map(...)
PainSeizureCorrelation(seizureRecords, pain) ==
    LET n == Len(seizureRecords)
        lastTen == SubSeq(seizureRecords, IF n > 10 THEN n - 9 ELSE 1, n)
    IN  [ i \in DOMAIN lastTen |->
            LET OnDay(p) == p.Date = TimestampDate(lastTen[i])
            IN  [ date     |-> TimestampDate(lastTen[i]),
                  duration |-> lastTen[i].duration_seconds,
                  pain     |-> HighestPain(SelectSeq(pain, OnDay)) ] ]

-----------------------------------------------------------------------------
(* calculateMedicalInsights *)

calculateMedicalInsights(seizureRecords, pain) ==
    LET sortedSeizures == SortedSeizures(seizureRecords)
        intervals == Intervals(sortedSeizures)
    IN  [ medical_insights |->
            [ food_impact             |-> FoodImpact(seizureRecords),
              menstrual_analysis      |-> MenstrualAnalysis(seizureRecords),
              pain_correlation        |-> PainCorrelation(seizureRecords, pain),
              inter_seizure_intervals |-> InterSeizureIntervals(intervals) ],
          medical_charts |->
            [ duration_trend             |-> DurationTrend(sortedSeizures),
              inter_seizure_distribution |-> InterSeizureDistribution(intervals),
              pain_seizure_correlation   |-> PainSeizureCorrelation(seizureRecords, pain),
              food_impact_comparison     |-> FoodImpactComparison(seizureRecords) ] ]

-----------------------------------------------------------------------------
(* handler *)

NoAnalysis ==
    [ pnes_likelihood_score |-> 0, classification |-> "",
      risk_factors |-> <<>>, recommendations |-> <<>> ]

NoInsights ==
    [ food_impact |->
        [ with_food_avg |-> 0, without_food_avg |-> 0, difference |-> 0,
          food_eaters |-> 0, non_eaters |-> 0, trend |-> "" ],
      menstrual_analysis |->
        [ period_avg_duration |-> 0, non_period_avg_duration |-> 0, difference |-> 0,
          period_seizure_count |-> 0, period_percentage |-> 0 ],
      pain_correlation |->
        [ avg_pain_seizure_days |-> 0, avg_pain_non_seizure_days |-> 0,
          days_with_pain |-> 0, correlation_percentage |-> 0 ],
      inter_seizure_intervals |->
        [ min_interval |-> 0, max_interval |-> 0, avg_interval |-> 0,
          median_interval |-> 0, intervals |-> <<>> ] ]

NoCharts ==
    [ duration_trend |-> <<>>, inter_seizure_distribution |-> <<>>,
      pain_seizure_correlation |-> <<>>, food_impact_comparison |-> <<>> ]

Unanswered ==
    /\ status = "none"
    /\ records = <<>>
    /\ pnes_analysis = NoAnalysis
    /\ medical_insights = NoInsights
    /\ medical_charts = NoCharts

\* the sort works on the array it was given, not on a copy
RecordsSortedInPlace(seizureRecords) == SortedSeizures(seizureRecords)

\* records: seizureRecords, read after the analyses ran: they sort and filter
\* copies ([...seizureRecords].sort, filter, map, slice)
ResponseRecords(seizureRecords) == seizureRecords

\* let seizures: any[] = []; if (fs.existsSync(seizureFile)) { seizures = parseCSV(...) }
ReadSeizures == IF seizureFile = "present" THEN seizures ELSE <<>>

\* GET /api/data.  try: read the files, normalize the rows, analyze them,
\* res.status(200).json(responseData).  catch: fs.readFileSync threw,
\* res.status(500).json({ error: 'Failed to load data' })
Handler ==
    /\ IF seizureFile = "unreadable"
       THEN /\ status' = "500"
            /\ records' = <<>>
            /\ pnes_analysis' = NoAnalysis
            /\ medical_insights' = NoInsights
            /\ medical_charts' = NoCharts
       ELSE LET seizureRecords == NormalizeSeizures(ReadSeizures)
                insights == calculateMedicalInsights(seizureRecords, painRecords)
            IN  /\ status' = "200"
                /\ records' = ResponseRecords(seizureRecords)
                /\ pnes_analysis' = analyzePNESIndicators(seizureRecords, painRecords)
                /\ medical_insights' = insights.medical_insights
                /\ medical_charts' = insights.medical_charts
    /\ UNCHANGED <<seizureFile, seizures, painRecords>>
    /\ UNCHANGED page

\* POST /seizure of the logging service appends one row to seizures.csv; every
\* request of the handler reads the file again
LogSeizure(row, limit) ==
    /\ seizureFile = "present"
    /\ Len(seizures) < limit
    /\ seizures' = Append(seizures, row)
    /\ UNCHANGED <<seizureFile, painRecords, status, records, pnes_analysis,
                   medical_insights, medical_charts>>
    /\ UNCHANGED page

-----------------------------------------------------------------------------
(* Dashboard page *)

\* the state of the first render, before the effect has run
FirstRender ==
    /\ isLoading = TRUE
    /\ error = "null"
    /\ data = "null"
    /\ lastRefresh = "render"
    /\ refreshTimer = "unset"
    /\ inFlight = <<>>

\* fetchData up to the await: setIsLoading(true); setError(null); fetch('/api/data')
StartFetch(caller) ==
    /\ isLoading' = TRUE
    /\ error' = "null"
    /\ inFlight' = Append(inFlight, caller)
    /\ UNCHANGED <<data, lastRefresh>>

\* useEffect: fetchData(); setInterval(fetchData, 60000)
Mount ==
    /\ refreshTimer = "unset"
    /\ StartFetch("load")
    /\ refreshTimer' = "set"
    /\ UNCHANGED server

\* the 60-second timer calls fetchData
TimerTick ==
    /\ refreshTimer = "set"
    /\ Len(inFlight) < MaxInFlight
    /\ StartFetch("timer")
    /\ UNCHANGED <<refreshTimer, server>>

\* the Refresh button of the header: disabled={isLoading}, onClick={onRefresh}
ClickRefresh ==
    /\ isLoading = FALSE
    /\ Len(inFlight) < MaxInFlight
    /\ StartFetch("refresh")
    /\ UNCHANGED <<refreshTimer, server>>

\* {error && <ErrorAlert error={error} onRetry={fetchData} />}
ClickRetry ==
    /\ error # "null"
    /\ Len(inFlight) < MaxInFlight
    /\ StartFetch("retry")
    /\ UNCHANGED <<refreshTimer, server>>

\* the rest of fetchData for a response that is ok: setData(result);
\* setLastRefresh(new Date()); finally setIsLoading(false)
FetchSucceeds(i) ==
    /\ i \in DOMAIN inFlight
    /\ data' = "result"
    /\ lastRefresh' = "load"
    /\ isLoading' = FALSE
    /\ inFlight' = SubSeq(inFlight, 1, i - 1) \o SubSeq(inFlight, i + 1, Len(inFlight))
    /\ UNCHANGED <<error, refreshTimer, server>>

\* the rest of fetchData for a response that is not ok or a fetch that rejects:
\* catch setError(message); finally setIsLoading(false)
FetchFails(i, message) ==
    /\ i \in DOMAIN inFlight
    /\ error' = message
    /\ isLoading' = FALSE
    /\ inFlight' = SubSeq(inFlight, 1, i - 1) \o SubSeq(inFlight, i + 1, Len(inFlight))
    /\ UNCHANGED <<data, lastRefresh, refreshTimer, server>>

-----------------------------------------------------------------------------
(* The logs the handler may find.  Under every specification seizures.csv   *)
(* starts empty and grows row by row, pain.csv holds any bounded content,   *)
(* and the handler may answer at any time.                                  *)

SeizureRow(d, t, dur, pe, ea) ==
    [Date |-> d, Time |-> t, Duration |-> dur, Peiod |-> pe, Eaten |-> ea]

\* the Time cell "hh:mm:00"
Clock(hh, mm) == 60 * hh + mm

PainRow(d, lvl) == [Date |-> d, Pain |-> lvl]

Flags == {"True", "False"}

\* A sample log: with at most three of these rows every subset of the five
\* indicators is triggered by some log.
LogRows ==
    { SeizureRow(1, Clock(12, 0), 10, "False", "False"),
      SeizureRow(1, Clock(12, 0), 10, "False", "True"),
      SeizureRow(2, Clock(3, 0), 10, "False", "False"),
      SeizureRow(2, Clock(3, 0), 10, "True", "True"),
      SeizureRow(2, Clock(12, 0), 40, "False", "False"),
      SeizureRow(2, Clock(12, 0), 40, "True", "False"),
      SeizureRow(1, Clock(0, 0), Empty, "False", "True"),
      SeizureRow(2, Clock(23, 0), 40, "False", "False") }

LogPain == {PainRow(d, 5) : d \in {1, 2}}

Init ==
    /\ seizureFile = "present"
    /\ seizures = <<>>
    /\ painRecords \in SeqsUpTo(MaxPain, LogPain)
    /\ Unanswered
    /\ FirstRender

Next ==
    \/ Handler
    \/ \E row \in LogRows : LogSeizure(row, MaxSeizures)

Spec == Init /\ [][Next]_vars

\* Logs that differ in their durations only
DurationRows == {SeizureRow(1, Clock(12, 0), dur, "False", "False") : dur \in {Empty, 0, 10, 30}}

InitDurations ==
    /\ seizureFile = "present"
    /\ seizures = <<>>
    /\ painRecords = <<>>
    /\ Unanswered
    /\ FirstRender

NextDurations ==
    \/ Handler
    \/ \E row \in DurationRows : LogSeizure(row, MaxDurationRows)

SpecDurations == InitDurations /\ [][NextDurations]_vars

\* Logs that differ in their period and food flags only
FlagRows == {SeizureRow(1, Clock(12, 0), 10, pe, ea) : pe \in Flags, ea \in Flags}

InitFlags ==
    /\ seizureFile = "present"
    /\ seizures = <<>>
    /\ painRecords = <<>>
    /\ Unanswered
    /\ FirstRender

NextFlags ==
    \/ Handler
    \/ \E row \in FlagRows : LogSeizure(row, MaxFlagRows)

SpecFlags == InitFlags /\ [][NextFlags]_vars

\* Logs that differ in their days and pain levels only
DayRows == {SeizureRow(d, Clock(12, 0), 10, "False", "False") : d \in {1, 2}}

PainRows == {PainRow(d, lvl) : d \in {1, 2, 3}, lvl \in {3, 4}}

InitPain ==
    /\ seizureFile = "present"
    /\ seizures = <<>>
    /\ painRecords \in SeqsUpTo(MaxPainRows, PainRows)
    /\ Unanswered
    /\ FirstRender

NextPain ==
    \/ Handler
    \/ \E row \in DayRows : LogSeizure(row, MaxDayRows)

SpecPain == InitPain /\ [][NextPain]_vars

\* Logs that differ in their timestamps only: twenty minutes, one day, one day and
\* twenty minutes, four days, two weeks, one year less twenty minutes and one year
\* after the first
TimedRows ==
    { SeizureRow(d[1], Clock(d[2], d[3]), 10, "False", "False") :
        d \in { <<1, 8, 0>>, <<1, 8, 20>>, <<2, 8, 0>>, <<2, 8, 20>>, <<5, 8, 0>>,
                <<15, 8, 0>>, <<366, 7, 40>>, <<366, 8, 0>> } }

InitIntervals ==
    /\ seizureFile = "present"
    /\ seizures = <<>>
    /\ painRecords = <<>>
    /\ Unanswered
    /\ FirstRender

NextIntervals ==
    \/ Handler
    \/ \E row \in TimedRows : LogSeizure(row, MaxIntervalRows)

SpecIntervals == InitIntervals /\ [][NextIntervals]_vars

\* Logs that differ in their durations and flags only
SplitRows ==
    { SeizureRow(1, Clock(12, 0), dur, f[1], f[2]) :
        dur \in {Empty, 60, 80, 90},
        f \in {<<"False", "False">>, <<"False", "True">>, <<"True", "True">>} }

InitSplit ==
    /\ seizureFile = "present"
    /\ seizures = <<>>
    /\ painRecords = <<>>
    /\ Unanswered
    /\ FirstRender

NextSplit ==
    \/ Handler
    \/ \E row \in SplitRows : LogSeizure(row, MaxSplitRows)

SpecSplit == InitSplit /\ [][NextSplit]_vars

\* Pain logs in which a record may lack its level
LevelRows == {PainRow(d, lvl) : d \in {1, 2}, lvl \in {Empty, 4, 7}}

InitLevels ==
    /\ seizureFile = "present"
    /\ seizures = <<>>
    /\ painRecords \in SeqsUpTo(MaxLevelRows, LevelRows)
    /\ Unanswered
    /\ FirstRender

NextLevels ==
    \/ Handler
    \/ \E row \in DayRows : LogSeizure(row, MaxDayRows)

SpecLevels == InitLevels /\ [][NextLevels]_vars

\* Logs whose rows may lack their date, time or duration
RawRows ==
    { SeizureRow(d, t, dur, "False", "False") :
        d \in {Empty, 2}, t \in {Empty, Clock(8, 0)}, dur \in {Empty, 60} }

InitRaw ==
    /\ seizureFile = "present"
    /\ seizures = <<>>
    /\ painRecords \in SeqsUpTo(MaxRawPain, {PainRow(1, 5), PainRow(2, 5)})
    /\ Unanswered
    /\ FirstRender

NextRaw ==
    \/ Handler
    \/ \E row \in RawRows : LogSeizure(row, MaxRawRows)

SpecRaw == InitRaw /\ [][NextRaw]_vars

\* seizures.csv may be missing from the data directory, or be there and fail to be
\* read (fs.readFileSync throws); only a file that is there is appended to
FileStates == {"absent", "present", "unreadable"}

InitFiles ==
    /\ seizureFile \in FileStates
    /\ seizures = <<>>
    /\ painRecords = <<>>
    /\ Unanswered
    /\ FirstRender

NextFiles ==
    \/ Handler
    \/ \E row \in DurationRows : LogSeizure(row, MaxFileRows)

SpecFiles == InitFiles /\ [][NextFiles]_vars

\* logs that differ in the order of their durations only
OrderRows == {SeizureRow(1, Clock(12, 0), dur, "False", "False") : dur \in {1, 3, 4}}

InitOrder ==
    /\ seizureFile = "present"
    /\ seizures = <<>>
    /\ painRecords \in SeqsUpTo(MaxOrderPain, LogPain)
    /\ Unanswered
    /\ FirstRender

NextOrder ==
    \/ Handler
    \/ \E row \in OrderRows : LogSeizure(row, MaxOrderRows)

SpecOrder == InitOrder /\ [][NextOrder]_vars

\* an empty seizures.csv, no pain.csv, the page not yet mounted
InitEmptyLog ==
    /\ seizureFile = "present"
    /\ seizures = <<>>
    /\ painRecords = <<>>
    /\ Unanswered
    /\ FirstRender

\* events that share a timestamp and differ in duration, a later hour, a later day
TrendRows ==
    { SeizureRow(1, Clock(12, 0), 10, "False", "False"),
      SeizureRow(1, Clock(12, 0), 20, "False", "False"),
      SeizureRow(1, Clock(13, 0), 10, "False", "False"),
      SeizureRow(2, Clock(12, 0), 10, "False", "False") }

NextTrend ==
    \/ Handler
    \/ \E row \in TrendRows : LogSeizure(row, MaxTrendRows)

SpecTrend == InitEmptyLog /\ [][NextTrend]_vars

\* The guide's Example 3, one seizure a day: the first 14 at noon and the rest at
\* 03:00, durations 13 s and 27 s in turn (mean 20, deviation 7, CV 35%), the
\* first 7 after food, the last 6 during the period; pain on the first 10 days.
ExampleRow(i) ==
    SeizureRow(i,
               IF i <= 14 THEN Clock(12, 0) ELSE Clock(3, 0),
               IF i % 2 = 1 THEN 13 ELSE 27,
               IF i >= 15 THEN "True" ELSE "False",
               IF i <= 7 THEN "True" ELSE "False")

ExamplePain == [d \in 1..10 |-> PainRow(d, 5)]

InitExample ==
    /\ seizureFile = "present"
    /\ seizures = <<>>
    /\ painRecords = ExamplePain
    /\ Unanswered
    /\ FirstRender

NextExample ==
    \/ Handler
    \/ \E i \in 1..MaxExampleRows :
          i = Len(seizures) + 1 /\ LogSeizure(ExampleRow(i), MaxExampleRows)

SpecExample == InitExample /\ [][NextExample]_vars

\* three seizures after food, then seizures without food, each of 10 or 11 seconds:
\* the two averages can differ by less than 0.05
MealRow(i, dur) ==
    SeizureRow(1, Clock(12, 0), dur, "False", IF i <= 3 THEN "True" ELSE "False")

NextMeals ==
    \/ Handler
    \/ \E dur \in {10, 11} :
          LogSeizure(MealRow(Len(seizures) + 1, dur), MaxMealRows)

SpecMeals == InitEmptyLog /\ [][NextMeals]_vars

\* one seizure a day at 08:00 for 21 days, then one every second day: the 21st
\* interval (48 hours) differs from the first 20 (24 hours)
TrailRow(i) ==
    SeizureRow(IF i <= 21 THEN i ELSE 2 * i - 21, Clock(8, 0), 10, "False", "False")

NextTrail ==
    \/ Handler
    \/ \E i \in 1..MaxTrailRows :
          i = Len(seizures) + 1 /\ LogSeizure(TrailRow(i), MaxTrailRows)

SpecTrail == InitEmptyLog /\ [][NextTrail]_vars

NextDashboard ==
    \/ Mount
    \/ TimerTick
    \/ ClickRefresh
    \/ ClickRetry
    \/ \E i \in 1..MaxInFlight : FetchSucceeds(i)
    \/ \E i \in 1..MaxInFlight, message \in {"API error: 500", "Failed to fetch"} :
          FetchFails(i, message)

SpecDashboard == InitEmptyLog /\ [][NextDashboard]_vars

-----------------------------------------------------------------------------
(* Properties of the answers.  They read the answer's own records, the     *)
(* seizureRecords the analysis was given: the log may have grown since.    *)

Answered == status = "200"

Score == pnes_analysis.pnes_likelihood_score

Band == pnes_analysis.classification

Listed(name) ==
    \E i \in DOMAIN pnes_analysis.risk_factors :
        pnes_analysis.risk_factors[i].indicator = name

PainIndicator == "High Anxiety/Pain Correlation"
DaytimeIndicator == "Predominantly Daytime Seizures"
VariabilityIndicator == "High Duration Variability"
FoodIndicator == "Potential Environmental Trigger Pattern"
HormonalIndicator == "Low Hormonal Correlation"

StatedWeight(name) ==
    CASE name = PainIndicator -> 20
      [] name = DaytimeIndicator -> 15
      [] name = VariabilityIndicator -> 12
      [] name = FoodIndicator -> 10
      [] name = HormonalIndicator -> 8
      [] OTHER -> 1000

\* C1: the score lies in [0, 65] and is the sum of the stated weights (20, 15, 12,
\* 10, 8) of exactly the indicators listed in risk_factors, each listed at most once.
C1_ScoreIsSumOfListedWeights ==
    Answered =>
        LET rf == pnes_analysis.risk_factors
        IN  /\ Score \in 0..65
            /\ \A i, j \in DOMAIN rf : i # j => rf[i].indicator # rf[j].indicator
            /\ Score = SumSeq([i \in DOMAIN rf |-> StatedWeight(rf[i].indicator)])

\* all five indicators are listed and the score is 65
C1_Witness ==
    /\ Answered
    /\ Len(pnes_analysis.risk_factors) = 5
    /\ Score = 65

\* C2: for a non-empty input the classification is HIGH exactly when score >= 50,
\* MODERATE exactly when 30 <= score < 50, LOW exactly when 15 <= score < 30 and
\* MINIMAL exactly when score < 15.
C2_BandsFollowScore ==
    (Answered /\ Len(records) > 0) =>
        /\ (Band = "HIGH") <=> (Score >= 50)
        /\ (Band = "MODERATE") <=> (Score >= 30 /\ Score < 50)
        /\ (Band = "LOW") <=> (Score >= 15 /\ Score < 30)
        /\ (Band = "MINIMAL") <=> (Score < 15)

\* daytime and food skew only: score 25, LOW
C2_Witness ==
    /\ Answered
    /\ Len(records) > 0
    /\ Len(pnes_analysis.risk_factors) = 2
    /\ Listed(DaytimeIndicator)
    /\ Listed(FoodIndicator)
    /\ Score = 25
    /\ Band = "LOW"

\* the distinct seizure days of the answer's records that carry a pain record
CommonDays ==
    {d \in {records[j].timestamp.date : j \in DOMAIN records} :
        \E i \in DOMAIN painRecords : painRecords[i].Date = d}

\* the pain records whose day is a seizure day
PainOnSeizureDay ==
    {i \in DOMAIN painRecords :
        \E j \in DOMAIN records : records[j].timestamp.date = painRecords[i].Date}

InDaytimeWindow(s) == s.hour_of_day >= 7 /\ s.hour_of_day < 23

\* C4: an event is daytime exactly when 7 <= hour_of_day < 23, and the daytime
\* indicator contributes exactly when the daytime events are strictly more than 70%
\* of all events.
C4_DaytimeWindow ==
    (Answered /\ Len(records) > 0) =>
        ( Listed(DaytimeIndicator) <=> (100 * Len(SelectSeq(records, InDaytimeWindow)) > 70 * Len(records)) )

Positive(s) == s.duration_seconds > 0

AteFoodFlag(s) == s.food_eaten

\* C6: for every non-empty event set the food indicator contributes exactly when
\* the fraction of events with food_eaten = true is strictly above 60% or strictly
\* below 40%, also when all events or no events have food_eaten = true.
C6_FoodSkew ==
    (Answered /\ Len(records) > 0) =>
        ( Listed(FoodIndicator) <=>
            ( 100 * Len(SelectSeq(records, AteFoodFlag)) > 60 * Len(records)
              \/ 100 * Len(SelectSeq(records, AteFoodFlag)) < 40 * Len(records) ) )

PeriodFlag(s) == s.period

\* C7: the low-hormonal indicator contributes exactly when the events flagged as
\* during-period are strictly fewer than 20% of all events (5 * flagged < all); at
\* exactly 20% it does not.
C7_LowHormonalBelowTwenty ==
    Answered =>
        ( Listed(HormonalIndicator) <=>
            ( Len(records) > 0 /\ 5 * Len(SelectSeq(records, PeriodFlag)) < Len(records) ) )

\* one event of five is during the period, exactly 20%: not listed
C7_Witness ==
    /\ Answered
    /\ Len(records) = 5
    /\ Len(SelectSeq(records, PeriodFlag)) = 1
    /\ ~Listed(HormonalIndicator)

\* C8: with zero seizure events the answer is score 0, MINIMAL, no risk factors and
\* exactly one recommendation, the insufficient-data message, whatever pain.csv holds.
C8_EmptyInputEarlyExit ==
    (Answered /\ Len(records) = 0) =>
        /\ Score = 0
        /\ Band = "MINIMAL"
        /\ pnes_analysis.risk_factors = <<>>
        /\ pnes_analysis.recommendations = << "Insufficient data for analysis" >>

\* an answer for an empty seizure log beside a pain log of two records
C8_Witness ==
    /\ Answered
    /\ Len(records) = 0
    /\ Len(painRecords) = 2
    /\ Len(pnes_analysis.recommendations) = 1

\* C9 as amended: for a non-empty input the recommendations are a function of the
\* band alone, with three templates: one for HIGH, one for MODERATE and one shared
\* by LOW and MINIMAL; the empty input, also MINIMAL, gets the single
\* insufficient-data message instead.
C9_RecommendationsByBand ==
    Answered =>
        pnes_analysis.recommendations =
            IF Len(records) = 0 THEN << "Insufficient data for analysis" >>
            ELSE IF Band = "HIGH" THEN HighTemplate
            ELSE IF Band = "MODERATE" THEN ModerateTemplate
            ELSE IF Band \in {"LOW", "MINIMAL"} THEN StandardTemplate
            ELSE <<>>

\* C9 as claimed: two answers with the same classification carry the same
\* recommendation list (stated of an answer and the next one).
C9_SameBandSameRecommendations ==
    [][ (Answered /\ status' = "200"
         /\ pnes_analysis'.classification = pnes_analysis.classification)
        => pnes_analysis'.recommendations = pnes_analysis.recommendations ]_vars

\* a non-empty input classified MINIMAL, with the template LOW also gets
C9_Witness ==
    /\ Answered
    /\ Len(records) > 0
    /\ Band = "MINIMAL"
    /\ pnes_analysis.recommendations = StandardTemplate

RECURSIVE PainSum(_)
PainSum(I) ==
    IF I = {} THEN 0
    ELSE LET i == CHOOSE x \in I : TRUE
         IN  painRecords[i].Pain + PainSum(I \ {i})

\* tenths is num / den rounded to one decimal, in tenths
IsRoundedTenths(tenths, num, den) ==
    LET diff == tenths * den - 10 * num
    IN  2 * diff <= den /\ 2 * diff > -den

\* C10: every pain record falls in exactly one of the two partitions; days_with_pain
\* is the size of the first; correlation_percentage is days_with_pain / (total pain
\* records) x 100 (reported to one decimal), 0 without pain records and always in
\* [0, 100]; each partition's average is the mean of its records (reported to one
\* decimal) and 0 for an empty partition.
C10_PainCorrelation ==
    Answered =>
        LET pc == medical_insights.pain_correlation
            on == PainOnSeizureDay
            off == DOMAIN painRecords \ on
            first == PainOnSeizure(records, painRecords)
            second == PainOnNonSeizure(records, painRecords)
            total == Len(painRecords)
        IN  /\ Len(first) + Len(second) = total
            /\ \A i \in DOMAIN painRecords :
                   /\ (i \in on) <=> (painRecords[i] \in Range(first))
                   /\ (i \in off) <=> (painRecords[i] \in Range(second))
            /\ pc.days_with_pain = Len(first)
            /\ pc.days_with_pain = Cardinality(on)
            /\ IF total = 0
               THEN pc.correlation_percentage = 0
               ELSE IsRoundedTenths(pc.correlation_percentage, 100 * Cardinality(on), total)
            /\ pc.correlation_percentage \in 0..1000
            /\ IF on = {}
               THEN pc.avg_pain_seizure_days = 0
               ELSE IsRoundedTenths(pc.avg_pain_seizure_days, PainSum(on), Cardinality(on))
            /\ IF off = {}
               THEN pc.avg_pain_non_seizure_days = 0
               ELSE IsRoundedTenths(pc.avg_pain_non_seizure_days, PainSum(off), Cardinality(off))

\* two seizure days, pain 4 on one of them and pain 3 on another day: one of two
\* pain records on a seizure day, 50%, averages 4.0 and 3.0
C10_Witness ==
    /\ Answered
    /\ Len(records) = 2
    /\ Len(painRecords) = 2
    /\ medical_insights.pain_correlation =
           [ avg_pain_seizure_days |-> 40, avg_pain_non_seizure_days |-> 30,
             days_with_pain |-> 1, correlation_percentage |-> 500 ]

-----------------------------------------------------------------------------
(* Inter-seizure intervals *)

ReportedIntervals == medical_insights.inter_seizure_intervals.intervals

IntervalStats == medical_insights.inter_seizure_intervals

BucketCount(range) ==
    LET dist == medical_charts.inter_seizure_distribution
        i == CHOOSE j \in DOMAIN dist : dist[j].range = range
    IN  dist[i].count

HowMany(lo, hi) ==
    Cardinality({i \in DOMAIN ReportedIntervals :
                    ReportedIntervals[i] >= lo /\ ReportedIntervals[i] <= hi})

\* C11: every retained interval is counted in exactly one of the five buckets, the
\* one whose range contains it (0-24h: <= 24, 1-3d: 25..72, 3-7d: 73..168,
\* 1-2w: 169..336, 2w+: > 336), so the five counts sum to the number of retained
\* intervals.
C11_BucketsPartitionIntervals ==
    Answered =>
        /\ Len(medical_charts.inter_seizure_distribution) = 5
        /\ BucketCount("0-24h") = HowMany(0 - 1000000, 24)
        /\ BucketCount("1-3d") = HowMany(25, 72)
        /\ BucketCount("3-7d") = HowMany(73, 168)
        /\ BucketCount("1-2w") = HowMany(169, 336)
        /\ BucketCount("2w+") = HowMany(337, 1000000)
        /\ BucketCount("0-24h") + BucketCount("1-3d") + BucketCount("3-7d")
           + BucketCount("1-2w") + BucketCount("2w+") = Len(ReportedIntervals)

\* intervals of exactly 24 and 72 hours: one in 0-24h, one in 1-3d
C11_Witness ==
    /\ Answered
    /\ ReportedIntervals = <<24, 72>>
    /\ BucketCount("0-24h") = 1
    /\ BucketCount("1-3d") = 1
    /\ BucketCount("3-7d") = 0

\* the instants of the answer's records, in minutes
Instants == {24 * 60 * records[j].timestamp.date + records[j].timestamp.time :
                j \in DOMAIN records}

\* the pairs of chronologically consecutive instants less than a year apart
ConsecutivePairs ==
    {p \in Instants \X Instants :
        /\ p[1] < p[2]
        /\ ~ \E t \in Instants : p[1] < t /\ t < p[2]
        /\ p[2] - p[1] < 8760 * 60}

\* C12: every interval kept for the statistics and buckets is strictly positive and
\* below 8760 hours, and exactly the consecutive pairs whose elapsed time is
\* positive and less than one year contribute an interval.
C12_KeptIntervalsPositiveBelowYear ==
    Answered =>
        /\ \A i \in DOMAIN ReportedIntervals :
              ReportedIntervals[i] > 0 /\ ReportedIntervals[i] < 8760
        /\ Len(ReportedIntervals) = Cardinality(ConsecutivePairs)

RECURSIVE IntervalSum(_)
IntervalSum(I) ==
    IF I = {} THEN 0
    ELSE LET i == CHOOSE x \in I : TRUE
         IN  ReportedIntervals[i] + IntervalSum(I \ {i})

Below(x) == Cardinality({i \in DOMAIN ReportedIntervals : ReportedIntervals[i] < x})

UpTo(x) == Cardinality({i \in DOMAIN ReportedIntervals : ReportedIntervals[i] <= x})

\* C13: for a non-empty set of retained intervals min_interval and max_interval are
\* the smallest and the largest of them, avg_interval is their arithmetic mean
\* (reported to one decimal) and median_interval is the element at index
\* floor(n / 2) of their ascending sort, a member with min <= median <= max.
C13_IntervalStatistics ==
    (Answered /\ Len(ReportedIntervals) > 0) =>
        LET n == Len(ReportedIntervals)
            vals == Range(ReportedIntervals)
        IN  /\ IntervalStats.min_interval \in vals
            /\ \A x \in vals : IntervalStats.min_interval <= x
            /\ IntervalStats.max_interval \in vals
            /\ \A x \in vals : x <= IntervalStats.max_interval
            /\ IsRoundedTenths(IntervalStats.avg_interval,
                               IntervalSum(DOMAIN ReportedIntervals), n)
            /\ IntervalStats.median_interval \in vals
            /\ Below(IntervalStats.median_interval) <= n \div 2
            /\ UpTo(IntervalStats.median_interval) > n \div 2
            /\ IntervalStats.min_interval <= IntervalStats.median_interval
            /\ IntervalStats.median_interval <= IntervalStats.max_interval

\* seizures at 2025-01-01T08:00, 2025-01-02T08:00 and 2025-01-05T08:00: min 24,
\* max 72, mean 48, median 72
C13_Witness ==
    /\ Answered
    /\ Len(records) = 3
    /\ ReportedIntervals = <<24, 72>>
    /\ IntervalStats.min_interval = 24
    /\ IntervalStats.max_interval = 72
    /\ IntervalStats.avg_interval = 480
    /\ IntervalStats.median_interval = 72

\* C14: with fewer than two seizure events the handler answers without error, the
\* interval set is empty, min_interval, max_interval, avg_interval and
\* median_interval are 0 and all five bucket counts are 0.
C14_FewerThanTwoEvents ==
    /\ seizureFile # "unreadable" => status # "500"
    /\ (Answered /\ Len(records) < 2) =>
        /\ ReportedIntervals = <<>>
        /\ IntervalStats.min_interval = 0
        /\ IntervalStats.max_interval = 0
        /\ IntervalStats.avg_interval = 0
        /\ IntervalStats.median_interval = 0
        /\ Len(medical_charts.inter_seizure_distribution) = 5
        /\ \A b \in DOMAIN medical_charts.inter_seizure_distribution :
              medical_charts.inter_seizure_distribution[b].count = 0

\* exactly one seizure event
C14_Witness ==
    /\ Answered
    /\ Len(records) = 1
    /\ ReportedIntervals = <<>>
    /\ IntervalStats.min_interval = 0

-----------------------------------------------------------------------------
(* Categorical comparisons *)

FoodImpactReported == medical_insights.food_impact

MenstrualReported == medical_insights.menstrual_analysis

RECURSIVE DurationOver(_)
DurationOver(I) ==
    IF I = {} THEN 0
    ELSE LET i == CHOOSE x \in I : TRUE
         IN  records[i].duration_seconds + DurationOver(I \ {i})

\* tenths is the mean duration of the events I to one decimal, 0 for no events
IsMeanOf(tenths, I) ==
    IF I = {} THEN tenths = 0
    ELSE IsRoundedTenths(tenths, DurationOver(I), Cardinality(I))

\* the mean of I minus the mean of J as a fraction num / den, an empty set having
\* the mean 0
MeanDiffNum(I, J) ==
    LET ci == IF I = {} THEN 1 ELSE Cardinality(I)
        cj == IF J = {} THEN 1 ELSE Cardinality(J)
    IN  DurationOver(I) * cj - DurationOver(J) * ci

MeanDiffDen(I, J) ==
    (IF I = {} THEN 1 ELSE Cardinality(I)) * (IF J = {} THEN 1 ELSE Cardinality(J))

FoodTrue == {i \in DOMAIN records : records[i].food_eaten}

FoodFalse == {i \in DOMAIN records : ~records[i].food_eaten}

PeriodTrue == {i \in DOMAIN records : records[i].period}

PeriodFalse == {i \in DOMAIN records : ~records[i].period}

\* C15: for the food split and the period split the answer reports the mean duration
\* of the true and of the false partition (0 for an empty one, to one decimal), the
\* partition counts and the signed difference true-mean minus false-mean; the food
\* trend is 'longer' exactly when that difference is > 0, 'shorter' exactly when it
\* is < 0 and 'similar' exactly when it is 0; for a non-empty input
\* period_percentage is the share of all events in the period partition.
C15_CategoricalSplits ==
    Answered =>
        /\ IsMeanOf(FoodImpactReported.with_food_avg, FoodTrue)
        /\ IsMeanOf(FoodImpactReported.without_food_avg, FoodFalse)
        /\ FoodImpactReported.food_eaters = Cardinality(FoodTrue)
        /\ FoodImpactReported.non_eaters = Cardinality(FoodFalse)
        /\ IsRoundedTenths(FoodImpactReported.difference,
                           MeanDiffNum(FoodTrue, FoodFalse), MeanDiffDen(FoodTrue, FoodFalse))
        /\ (FoodImpactReported.trend = "longer") <=> (MeanDiffNum(FoodTrue, FoodFalse) > 0)
        /\ (FoodImpactReported.trend = "shorter") <=> (MeanDiffNum(FoodTrue, FoodFalse) < 0)
        /\ (FoodImpactReported.trend = "similar") <=> (MeanDiffNum(FoodTrue, FoodFalse) = 0)
        /\ IsMeanOf(MenstrualReported.period_avg_duration, PeriodTrue)
        /\ IsMeanOf(MenstrualReported.non_period_avg_duration, PeriodFalse)
        /\ MenstrualReported.period_seizure_count = Cardinality(PeriodTrue)
        /\ IsRoundedTenths(MenstrualReported.difference,
                           MeanDiffNum(PeriodTrue, PeriodFalse),
                           MeanDiffDen(PeriodTrue, PeriodFalse))
        /\ Len(records) > 0 =>
              IsRoundedTenths(MenstrualReported.period_percentage,
                              100 * Cardinality(PeriodTrue), Len(records))

\* events {60 s, food}, {90 s, no food}, {80 s, food, period}: with-food 70,
\* without-food 90, difference -20, shorter; period 80, non-period 75, 33.3%
C15_Witness ==
    /\ Answered
    /\ Len(records) = 3
    /\ FoodImpactReported.with_food_avg = 700
    /\ FoodImpactReported.without_food_avg = 900
    /\ FoodImpactReported.difference = 0 - 200
    /\ FoodImpactReported.trend = "shorter"
    /\ MenstrualReported.period_avg_duration = 800
    /\ MenstrualReported.non_period_avg_duration = 750
    /\ MenstrualReported.period_percentage = 333

Timed(I) == {i \in I : records[i].duration_seconds > 0}

\* C16: an event whose duration is 0 or unknown is excluded from every duration
\* average: with_food_avg, without_food_avg, period_avg_duration and
\* non_period_avg_duration are the means over the events of the partition that have
\* a positive duration.
C16_UnknownDurationsExcluded ==
    Answered =>
        /\ IsMeanOf(FoodImpactReported.with_food_avg, Timed(FoodTrue))
        /\ IsMeanOf(FoodImpactReported.without_food_avg, Timed(FoodFalse))
        /\ IsMeanOf(MenstrualReported.period_avg_duration, Timed(PeriodTrue))
        /\ IsMeanOf(MenstrualReported.non_period_avg_duration, Timed(PeriodFalse))

-----------------------------------------------------------------------------
(* Pain levels *)

PainReported == medical_insights.pain_correlation

\* the pain records that carry a numeric level
Rated(I) == {i \in I : painRecords[i].Pain # Empty}

\* tenths is the mean level of the pain records I to one decimal, 0 for no records
IsMeanLevelOf(tenths, I) ==
    IF I = {} THEN tenths = 0
    ELSE IsRoundedTenths(tenths, PainSum(I), Cardinality(I))

\* C17: a pain record whose level is missing or non-numeric is excluded from
\* avg_pain_seizure_days and avg_pain_non_seizure_days: each is the mean over the
\* records of its partition that carry a numeric level.
C17_UnratedPainExcluded ==
    Answered =>
        /\ IsMeanLevelOf(PainReported.avg_pain_seizure_days, Rated(PainOnSeizureDay))
        /\ IsMeanLevelOf(PainReported.avg_pain_non_seizure_days,
                         Rated(DOMAIN painRecords \ PainOnSeizureDay))

-----------------------------------------------------------------------------
(* Empty input *)

\* C18: with zero seizure events and any pain records the handler answers without
\* error; every numeric field of the summaries, period_percentage included, is the
\* number 0; every list is empty or all-zero; the risk payload is score 0, MINIMAL.
C18_ZeroEventsAllZero ==
    /\ seizureFile # "unreadable" => status # "500"
    /\ (Answered /\ records = <<>>) =>
        /\ FoodImpactReported.with_food_avg = 0
        /\ FoodImpactReported.without_food_avg = 0
        /\ FoodImpactReported.difference = 0
        /\ FoodImpactReported.food_eaters = 0
        /\ FoodImpactReported.non_eaters = 0
        /\ MenstrualReported.period_avg_duration = 0
        /\ MenstrualReported.non_period_avg_duration = 0
        /\ MenstrualReported.difference = 0
        /\ MenstrualReported.period_seizure_count = 0
        /\ MenstrualReported.period_percentage = 0
        /\ PainReported.avg_pain_seizure_days = 0
        /\ PainReported.avg_pain_non_seizure_days = 0
        /\ PainReported.days_with_pain = 0
        /\ PainReported.correlation_percentage = 0
        /\ IntervalStats.min_interval = 0
        /\ IntervalStats.max_interval = 0
        /\ IntervalStats.avg_interval = 0
        /\ IntervalStats.median_interval = 0
        /\ ReportedIntervals = <<>>
        /\ medical_charts.duration_trend = <<>>
        /\ medical_charts.pain_seizure_correlation = <<>>
        /\ \A b \in DOMAIN medical_charts.inter_seizure_distribution :
              medical_charts.inter_seizure_distribution[b].count = 0
        /\ \A c \in DOMAIN medical_charts.food_impact_comparison :
              /\ medical_charts.food_impact_comparison[c].avg_duration = 0
              /\ medical_charts.food_impact_comparison[c].count = 0
        /\ Score = 0
        /\ Band = "MINIMAL"

-----------------------------------------------------------------------------
(* Malformed rows *)

\* the days of the rows that carry a date
KnownDays(rows) == {rows[i].Date : i \in DOMAIN rows} \ {Empty}

\* the instants, in minutes, of the rows that carry a date and a time
KnownInstants(rows) ==
    {24 * 60 * rows[i].Date + rows[i].Time :
        i \in {j \in DOMAIN rows : rows[j].Date # Empty /\ rows[j].Time # Empty}}

\* the pairs of consecutive instants of T less than a year apart
PairsOf(T) ==
    {p \in T \X T :
        /\ p[1] < p[2]
        /\ ~ \E t \in T : p[1] < t /\ t < p[2]
        /\ p[2] - p[1] < 8760 * 60}

\* the rows of a partition that carry a duration
WithDuration(rows, food) ==
    {i \in DOMAIN rows : rows[i].Duration # Empty /\ (rows[i].Eaten = "True") = food}

RECURSIVE RowDurations(_, _)
RowDurations(rows, I) ==
    IF I = {} THEN 0
    ELSE LET i == CHOOSE x \in I : TRUE
         IN  rows[i].Duration + RowDurations(rows, I \ {i})

IsMeanOfRows(tenths, rows, I) ==
    IF I = {} THEN tenths = 0
    ELSE IsRoundedTenths(tenths, RowDurations(rows, I), Cardinality(I))

\* C19: every answer of the handler to a readable log is a success with exactly one
\* event per row, and a row's missing date, time or duration stays out of the
\* statistics that depend on it: the seizure days matched against the pain records
\* are the days of the rows that carry a date, the intervals are those between the
\* rows that carry a date and a time, and the duration averages are those of the
\* rows that carry a duration.
C19_MalformedFieldsExcluded ==
    [][ (UNCHANGED seizures /\ seizureFile = "present") =>
          /\ status' = "200"
          /\ Len(records') = Len(seizures)
          /\ medical_insights'.pain_correlation.days_with_pain =
                Cardinality({i \in DOMAIN painRecords :
                                painRecords[i].Date \in KnownDays(seizures)})
          /\ Len(medical_insights'.inter_seizure_intervals.intervals) =
                Cardinality(PairsOf(KnownInstants(seizures)))
          /\ IsMeanOfRows(medical_insights'.food_impact.with_food_avg, seizures,
                          WithDuration(seizures, TRUE))
          /\ IsMeanOfRows(medical_insights'.food_impact.without_food_avg, seizures,
                          WithDuration(seizures, FALSE)) ]_vars

-----------------------------------------------------------------------------
(* Missing source *)

\* C20: when seizures.csv cannot be found or read, every answer of the handler is a
\* failure that carries no analysis; it is never a success.
C20_MissingSourceFails ==
    (seizureFile \in {"absent", "unreadable"} /\ status # "none") =>
        /\ status = "500"
        /\ pnes_analysis.classification = ""
        /\ pnes_analysis.recommendations = <<>>
        /\ medical_charts.inter_seizure_distribution = <<>>

-----------------------------------------------------------------------------
(* The engine as a function of its inputs *)

\* the log is as it was when the handler last answered
Fresh == Answered /\ Len(records) = Len(seizures)

SwapAt(q, i) ==
    [j \in DOMAIN q |-> IF j = i THEN q[i + 1] ELSE IF j = i + 1 THEN q[i] ELSE q[j]]

Outcome(analysis) ==
    [ score          |-> analysis.pnes_likelihood_score,
      classification |-> analysis.classification,
      indicators     |-> {analysis.risk_factors[i].indicator : i \in DOMAIN analysis.risk_factors} ]

\* C23: the score, the classification and the set of triggered indicators are
\* unchanged by a permutation of the seizure events and by a permutation of the
\* pain records: exchanging two neighbours of either collection (the exchanges
\* generate every permutation) gives the outcome of the answer.
C23_OrderInsensitive ==
    Answered =>
        /\ \A i \in 1..(Len(records) - 1) :
              Outcome(analyzePNESIndicators(SwapAt(records, i), painRecords)) = Outcome(pnes_analysis)
        /\ \A i \in 1..(Len(painRecords) - 1) :
              Outcome(analyzePNESIndicators(records, SwapAt(painRecords, i))) = Outcome(pnes_analysis)

\* the one-to-one assignments of the positions 1..n to the positions 1..n
Orderings(n) == {p \in [1..n -> 1..n] : \A k, l \in 1..n : p[k] = p[l] => k = l}

Instant(s) == 24 * 60 * s.timestamp.date + s.timestamp.time

\* C24: duration_trend has one entry per seizure event, numbered 1..n without
\* gaps, in non-decreasing timestamp order, events of equal timestamp in their
\* source order, and each entry carries its event's duration and calendar day.
C24_TrendIsStableChronology ==
    Answered =>
        LET trend == medical_charts.duration_trend
            n     == Len(records)
        IN  /\ Len(trend) = n
            /\ \A k \in 1..n : trend[k].seizure_number = k
            /\ \E p \in Orderings(n) :
                  /\ \A k \in 1..n :
                        /\ trend[k].duration = records[p[k]].duration_seconds
                        /\ trend[k].date = records[p[k]].timestamp.date
                  /\ \A k, l \in 1..n :
                        k < l => \/ Instant(records[p[k]]) < Instant(records[p[l]])
                                 \/ /\ Instant(records[p[k]]) = Instant(records[p[l]])
                                    /\ p[k] < p[l]

\* a later day logged first, then two events of one timestamp: the longer one,
\* logged before the shorter one, also comes first in the trend
C24_Witness ==
    /\ Fresh
    /\ Len(records) = 3
    /\ records[1].timestamp.date = 2
    /\ Instant(records[2]) = Instant(records[3])
    /\ records[2].duration_seconds = 20
    /\ records[3].duration_seconds = 10
    /\ medical_charts.duration_trend[1].duration = 20
    /\ medical_charts.duration_trend[2].duration = 10
    /\ medical_charts.duration_trend[3].date = 2

DistinctSeizureDays == {records[j].timestamp.date : j \in DOMAIN records}

\* C25: the pain indicator triggers exactly when more than 50% of the distinct
\* seizure days have an associated pain record, also when several seizures fall
\* on the same day.
C25_PainIndicatorPerSeizureDay ==
    (Answered /\ Len(records) > 0) =>
        ( Listed(PainIndicator) <=>
            ( Len(painRecords) > 0
              /\ 100 * Cardinality(CommonDays) > 50 * Cardinality(DistinctSeizureDays) ) )

\* the answer is about the 20 seizures of the guide's Example 3: 10 seizure days
\* with pain, 14 seizures in the daytime, duration CV 35% (deviation / mean =
\* 7 / 20), 7 with food, 6 during the period
IsExample3 ==
    LET n   == Len(records)
        S   == SumSeq([j \in DOMAIN records |-> records[j].duration_seconds])
        dev == SumSeq([j \in DOMAIN records |->
                   (n * records[j].duration_seconds - S) * (n * records[j].duration_seconds - S)])
    IN  /\ Fresh
        /\ n = 20
        /\ Cardinality(DistinctSeizureDays) = 20
        /\ Cardinality(CommonDays) = 10
        /\ Cardinality({j \in DOMAIN records : records[j].hour_of_day \in 7..22}) = 14
        /\ \A j \in DOMAIN records : records[j].duration_seconds > 0
        /\ 400 * dev = 49 * n * S * S
        /\ Cardinality({j \in DOMAIN records : records[j].food_eaten}) = 7
        /\ Cardinality({j \in DOMAIN records : records[j].period}) = 6

\* C26: for the guide's Example 3 the analysis returns score 27 and
\* classification LOW.
C26_Example3Scores27 == IsExample3 => (Score = 27 /\ Band = "LOW")

\* C27: the values reported in food_impact are mutually consistent: trend is
\* 'similar' exactly when the reported one-decimal difference is 0, 'longer'
\* exactly when it is positive and 'shorter' exactly when it is negative.
C27_TrendMatchesReportedDifference ==
    Answered =>
        LET food == medical_insights.food_impact
        IN  /\ food.trend = "similar" <=> food.difference = 0
            /\ food.trend = "longer" <=> food.difference > 0
            /\ food.trend = "shorter" <=> food.difference < 0

\* the consecutive pairs whose true elapsed time is at most so many hours
PairsWithin(hours) ==
    Cardinality({p \in ConsecutivePairs : p[2] - p[1] <= hours * 60})

\* C28: bucketing respects the true elapsed time of a consecutive pair: a pair
\* more than 24 hours apart is never counted in '0-24h', and a pair more than 72,
\* 168 or 336 hours apart is never counted in the bucket that ends there, so the
\* buckets up to a boundary never hold more pairs than lie within that boundary.
C28_BucketsRespectElapsedTime ==
    Answered =>
        /\ BucketCount("0-24h") <= PairsWithin(24)
        /\ BucketCount("0-24h") + BucketCount("1-3d") <= PairsWithin(72)
        /\ BucketCount("0-24h") + BucketCount("1-3d") + BucketCount("3-7d") <= PairsWithin(168)
        /\ BucketCount("0-24h") + BucketCount("1-3d") + BucketCount("3-7d")
           + BucketCount("1-2w") <= PairsWithin(336)

RECURSIVE Ascending(_)
Ascending(S) ==
    IF S = {} THEN <<>>
    ELSE LET least == CHOOSE x \in S : \A y \in S : x <= y
         IN  <<least>> \o Ascending(S \ {least})

\* the elapsed whole hours between chronologically consecutive seizures, oldest first
ChronologicalGaps ==
    LET t == Ascending(Instants)
    IN  [i \in 1..(Len(t) - 1) |-> (2 * (t[i + 1] - t[i]) + 60) \div 120]

\* C29: when more than 20 valid intervals exist, the intervals list holds the
\* last 20, those between the most recent seizures; with 20 or fewer it holds
\* all of them in chronological order.
C29_IntervalsListIsLastTwenty ==
    (Answered /\ \A i \in DOMAIN ChronologicalGaps :
                    ChronologicalGaps[i] > 0 /\ ChronologicalGaps[i] < 8760) =>
        LET n == Len(ChronologicalGaps)
        IN  IF n > 20
            THEN ReportedIntervals = SubSeq(ChronologicalGaps, n - 19, n)
            ELSE ReportedIntervals = ChronologicalGaps

\* C30: under any interleaving of the initial load, the auto-refresh timer, the
\* Refresh button and the Retry action, isLoading is true whenever a /api/data
\* request started by fetchData is still in flight.
C30_LoadingWhileInFlight == Len(inFlight) > 0 => isLoading = TRUE

====
